---- MODULE Spec2Model ----
(***************************************************************************)
(* Emission-factor resolution and carbon computation of the nine component *)
(* models of act/core: Active, Capacitor, Connector, Diode, Inductor,      *)
(* Other, PCB, Resistor and Switch.                                        *)
(*                                                                         *)
(* One model instance is built from one configuration document (an ordered *)
(* key -> value mapping, as yaml.load returns it) and then answers         *)
(* get_carbon calls.  Quantities are modelled by their integer magnitude;  *)
(* a weight or an area also carries its dimension, which is what           *)
(* weight.check(kg) / area.check(mm2) look at.                             *)
(***************************************************************************)
EXTENDS Integers, Sequences, FiniteSets, TLC

VARIABLES
    cat,                       \* which model class the instance is
    model_data,                \* the loaded configuration document
    pc,                        \* "new", "ready" (constructed), "returned" (a call
                               \* came back to its caller) or "exited" (exit(-1))
    emission_factors,          \* Active/Connector/Diode/Other/Resistor/Switch table
    capacitor_model,           \* Capacitor: energy-based table
    package_model,             \* Capacitor: package-based table
    weight_based_factor,       \* Inductor: None or Some(factor)
    package_emission_factors,  \* Inductor: package table
    model,                     \* PCB: layer table
    typical_thickness,         \* PCB
    carbon_coefficient,        \* PCB: None or Some(coefficient)
    interpolated_cpla,         \* PCB: None or Some(average)
    call,                      \* arguments of the last get_carbon call
    ret                        \* outcome of the last get_carbon call

vars == <<cat, model_data, pc, emission_factors, capacitor_model, package_model,
          weight_based_factor, package_emission_factors, model, typical_thickness,
          carbon_coefficient, interpolated_cpla, call, ret>>

tables == <<emission_factors, capacitor_model, package_model, weight_based_factor,
            package_emission_factors, model, typical_thickness, carbon_coefficient,
            interpolated_cpla>>

-----------------------------------------------------------------------------
(* Bounds of the model.                                                    *)

\* longest configuration document (number of key/value pairs)
MaxPairs == 3
\* largest component count n passed to get_carbon
MaxN == 2
\* largest PCB layer count passed to get_carbon
MaxLayers == 3

\* magnitudes of the factors a configuration document may hold
FactorValues == {2, 3}

-----------------------------------------------------------------------------
(* Python values.                                                          *)

\* Python's None and a present optional value
None == <<>>
Some(v) == <<v>>

\* an insertion-ordered dict is a sequence of <<key, value>> pairs
EmptyDict == <<>>
DictKeys(d) == {d[i][1] : i \in DOMAIN d}
DictHas(d, k) == \E i \in DOMAIN d : d[i][1] = k
DictGet(d, k) == d[CHOOSE i \in DOMAIN d : d[i][1] = k][2]
DictSet(d, k, v) ==
    IF DictHas(d, k)
    THEN [i \in DOMAIN d |-> IF d[i][1] = k THEN <<k, v>> ELSE d[i]]
    ELSE Append(d, <<k, v>>)
\* list(d.values())
DictValues(d) == [i \in DOMAIN d |-> d[i][2]]

\* dimensioned quantities handed in by the caller
Quantity(m, d) == [mag |-> m, dim |-> d]
\* quantity.check(dimension)
check(q, d) == q.dim = d

\* outcomes of a call: a returned Carbon, or the way the call did not return
Carbon(c, s) == [kind |-> "Carbon", carbon |-> c, source |-> s]
AssertionError == [kind |-> "AssertionError", carbon |-> 0, source |-> "none"]
IndexError == [kind |-> "IndexError", carbon |-> 0, source |-> "none"]
SystemExit == [kind |-> "SystemExit", carbon |-> 0, source |-> "none"]
NotCalled == [kind |-> "none", carbon |-> 0, source |-> "none"]

-----------------------------------------------------------------------------
(* Type enumerations (the enums' values).                                  *)

ActiveType == {"transistor_bjt", "transistor_mosfet", "active_generic", "generic"}
CapacitorType == {"mlcc", "tec", "generic", "0201", "0402", "0603", "0805"}
ConnectorType == {"pci", "peripheral"}
DiodeType == {"glass_smd", "led", "transistor", "generic"}
InductorType == {"weight_based", "0201", "0402", "0603", "0805", "generic"}
OtherType == {"passive_generic", "active_generic", "generic"}
ResistorType == {"0201", "0402", "0603", "0805", "generic"}
SwitchType == {"generic"}

\* a key of a document that no enumeration knows, and an argument that is
\* not a member of the enumeration of the model it is passed to
UnknownKey == "unknown_key"
ForeignType == "foreign_type"

\* the load loop without the Enum coercion: every key of the document, known or
\* not, becomes an entry of the table
RECURSIVE LoadFactors_unknown_kept(_, _, _)
LoadFactors_unknown_kept(data, enum, acc) ==
    IF data = <<>> THEN acc
    ELSE LET key == Head(data)[1]
             factor == Head(data)[2]
         IN LoadFactors_unknown_kept(Tail(data), enum, DictSet(acc, key, factor))

\* for key, factor in model_data.items(): try table[Enum(key)] = units(factor)
\* except ValueError: skip
RECURSIVE LoadFactors(_, _, _)
LoadFactors(data, enum, acc) ==
    IF data = <<>> THEN acc
    ELSE LET key == Head(data)[1]
             factor == Head(data)[2]
         IN LoadFactors(Tail(data), enum,
                        IF key \in enum THEN DictSet(acc, key, factor) ELSE acc)

\* the result of a constructor: exit(-1) was called, or the table it built
Exited == [exit |-> TRUE, table |-> EmptyDict]
Built(t) == [exit |-> FALSE, table |-> t]

-----------------------------------------------------------------------------
(* ActiveModel                                                             *)

ActiveModel_init(data) ==
    LET ef == LoadFactors(data, ActiveType, EmptyDict)
    IN IF ~DictHas(ef, "generic")
       THEN IF DictHas(ef, "active_generic")
            THEN Built(DictSet(ef, "generic", DictGet(ef, "active_generic")))
            ELSE Exited
       ELSE Built(ef)

ActiveModel_get_carbon(ef, weight, active_type, n_components) ==
    IF ~check(weight, "[mass]") THEN AssertionError
    ELSE LET emission_factor ==
                 IF ~DictHas(ef, active_type) THEN DictGet(ef, "generic")
                 ELSE DictGet(ef, active_type)
         IN Carbon(weight.mag * emission_factor * n_components, "ACTIVE")

-----------------------------------------------------------------------------
(* ConnectorModel                                                          *)

\* ConnectorModel.__init__ checking the fallback member PERIPHERAL only
ConnectorModel_init_peripheral_only(data) ==
    LET ef == LoadFactors(data, ConnectorType, EmptyDict)
    IN IF ~DictHas(ef, "peripheral") THEN Exited ELSE Built(ef)

ConnectorModel_init(data) ==
    LET ef == LoadFactors(data, ConnectorType, EmptyDict)
    IN IF ~DictHas(ef, "peripheral") THEN Exited
       ELSE IF ~DictHas(ef, "pci") THEN Exited
       ELSE Built(ef)

ConnectorModel_get_carbon(ef, weight, connector_type, n_connectors) ==
    IF ~check(weight, "[mass]") THEN AssertionError
    ELSE LET emission_factor ==
                 IF ~DictHas(ef, connector_type) THEN DictGet(ef, "peripheral")
                 ELSE DictGet(ef, connector_type)
             carbon_per_connector == weight.mag * emission_factor
         IN Carbon(carbon_per_connector * n_connectors, "CONNECTOR")

-----------------------------------------------------------------------------
(* DiodeModel                                                              *)

\* DiodeModel.__init__ without the exit when no generic factor can be set
DiodeModel_init_no_exit(data) ==
    LET ef == LoadFactors(data, DiodeType, EmptyDict)
    IN IF ~DictHas(ef, "generic") /\ DictHas(ef, "glass_smd")
       THEN Built(DictSet(ef, "generic", DictGet(ef, "glass_smd")))
       ELSE Built(ef)

DiodeModel_init(data) ==
    LET ef == LoadFactors(data, DiodeType, EmptyDict)
    IN IF ~DictHas(ef, "generic")
       THEN IF DictHas(ef, "glass_smd")
            THEN Built(DictSet(ef, "generic", DictGet(ef, "glass_smd")))
            ELSE Exited
       ELSE Built(ef)

DiodeModel_get_carbon(ef, weight, diode_type, n_diodes) ==
    IF ~check(weight, "[mass]") THEN AssertionError
    ELSE LET emission_factor ==
                 IF ~DictHas(ef, diode_type) THEN DictGet(ef, "generic")
                 ELSE DictGet(ef, diode_type)
         IN Carbon(weight.mag * emission_factor * n_diodes, "FABRICATION")

-----------------------------------------------------------------------------
(* OtherModel                                                              *)

OtherModel_init(data) ==
    LET ef == LoadFactors(data, OtherType, EmptyDict)
    IN IF ~DictHas(ef, "generic") THEN Exited ELSE Built(ef)

\* OtherModel.get_carbon with the multiplication by n_components left out
OtherModel_get_carbon_single(ef, weight, component_type, n_components) ==
    IF ~check(weight, "[mass]") THEN AssertionError
    ELSE LET emission_factor ==
                 IF ~DictHas(ef, component_type) THEN DictGet(ef, "generic")
                 ELSE DictGet(ef, component_type)
         IN Carbon(weight.mag * emission_factor, "OTHER")

OtherModel_get_carbon(ef, weight, component_type, n_components) ==
    IF ~check(weight, "[mass]") THEN AssertionError
    ELSE LET emission_factor ==
                 IF ~DictHas(ef, component_type) THEN DictGet(ef, "generic")
                 ELSE DictGet(ef, component_type)
         IN Carbon(weight.mag * emission_factor * n_components, "OTHER")

-----------------------------------------------------------------------------
(* SwitchModel                                                             *)

SwitchModel_init(data) ==
    LET ef == LoadFactors(data, SwitchType, EmptyDict)
    IN IF ~DictHas(ef, "generic") THEN Exited ELSE Built(ef)

SwitchModel_get_carbon(ef, weight, switch_type, n_switches) ==
    IF ~check(weight, "[mass]") THEN AssertionError
    ELSE LET emission_factor ==
                 IF ~DictHas(ef, switch_type) THEN DictGet(ef, "generic")
                 ELSE DictGet(ef, switch_type)
         IN Carbon(weight.mag * emission_factor * n_switches, "SWITCH")

-----------------------------------------------------------------------------
(* ResistorModel                                                           *)

ResistorModel_init(data) ==
    LET ef == LoadFactors(data, ResistorType, EmptyDict)
    IN IF ef = EmptyDict THEN Exited
       ELSE IF DictHas(ef, "0805") /\ ~DictHas(ef, "generic")
            THEN Built(DictSet(ef, "generic", DictGet(ef, "0805")))
            ELSE Built(ef)

\* the fallback preferring the GENERIC entry to the first entry when there is
\* no 0805 entry
GetPkg0805OrGeneric(d) ==
    IF d = EmptyDict THEN None
    ELSE IF DictHas(d, "0805") THEN Some(DictGet(d, "0805"))
    ELSE IF DictHas(d, "generic") THEN Some(DictGet(d, "generic"))
    ELSE Some(DictValues(d)[1])

\* d.get("0805", list(d.values())[0]): Python evaluates the default argument
\* before the lookup, so an empty table raises IndexError
GetPkg0805OrFirst(d) ==
    IF d = EmptyDict THEN None
    ELSE IF DictHas(d, "0805") THEN Some(DictGet(d, "0805"))
    ELSE Some(DictValues(d)[1])

\* ResistorModel.get_carbon falling back to GENERIC first, as the other models do
ResistorModel_get_carbon_generic_first(ef, n_resistors, resistor_type) ==
    IF ~DictHas(ef, resistor_type)
    THEN LET emission_factor ==
                 IF DictHas(ef, "generic") THEN Some(DictGet(ef, "generic"))
                 ELSE GetPkg0805OrFirst(ef)
         IN IF emission_factor = None THEN IndexError
            ELSE Carbon(emission_factor[1] * n_resistors, "FABRICATION")
    ELSE Carbon(DictGet(ef, resistor_type) * n_resistors, "FABRICATION")

ResistorModel_get_carbon(ef, n_resistors, resistor_type) ==
    IF ~DictHas(ef, resistor_type)
    THEN LET emission_factor == GetPkg0805OrFirst(ef)
         IN IF emission_factor = None THEN IndexError
            ELSE Carbon(emission_factor[1] * n_resistors, "FABRICATION")
    ELSE Carbon(DictGet(ef, resistor_type) * n_resistors, "FABRICATION")

-----------------------------------------------------------------------------
(* InductorModel                                                           *)

RECURSIVE InductorLoad(_, _)
InductorLoad(data, acc) ==
    IF data = <<>> THEN acc
    ELSE LET key == Head(data)[1]
             value == Head(data)[2]
         IN InductorLoad(Tail(data),
                IF key = "weight_based"
                THEN [acc EXCEPT !.weight_based_factor = Some(value)]
                ELSE IF key \in InductorType
                THEN [acc EXCEPT !.package_emission_factors = DictSet(@, key, value)]
                ELSE acc)

InductorModel_init(data) ==
    LET loaded == InductorLoad(data, [weight_based_factor |-> None,
                                      package_emission_factors |-> EmptyDict])
        pef == loaded.package_emission_factors
    IN IF DictHas(pef, "0805")
       THEN [loaded EXCEPT !.package_emission_factors =
                               DictSet(pef, "generic", DictGet(pef, "0805"))]
       ELSE loaded

\* InductorModel.get_carbon choosing the package method by the type alone, also
\* when a weight is supplied
InductorModel_get_carbon_type_first(wbf, pef, n_inductors, inductor_type, weight) ==
    LET is_package_type ==
            inductor_type \in {"0201", "0402", "0603", "0805", "generic"}
    IN IF is_package_type
       THEN IF ~DictHas(pef, inductor_type)
            THEN LET emission_factor == GetPkg0805OrFirst(pef)
                 IN IF emission_factor = None THEN IndexError
                    ELSE Carbon(emission_factor[1] * n_inductors, "INDUCTOR")
            ELSE Carbon(DictGet(pef, inductor_type) * n_inductors, "INDUCTOR")
       ELSE IF weight = None THEN Carbon(0, "INDUCTOR")
       ELSE IF ~check(weight[1], "[mass]") THEN AssertionError
       ELSE IF wbf = None THEN Carbon(0, "INDUCTOR")
       ELSE Carbon(weight[1].mag * wbf[1] * n_inductors, "INDUCTOR")

\* InductorModel.get_carbon asserting, instead of testing, that the weight-based
\* factor is configured
InductorModel_get_carbon_factor_asserted(wbf, pef, n_inductors, inductor_type, weight) ==
    LET is_package_type ==
            inductor_type \in {"0201", "0402", "0603", "0805", "generic"}
    IN IF is_package_type /\ weight = None
       THEN IF ~DictHas(pef, inductor_type)
            THEN LET emission_factor == GetPkg0805OrFirst(pef)
                 IN IF emission_factor = None THEN IndexError
                    ELSE Carbon(emission_factor[1] * n_inductors, "INDUCTOR")
            ELSE Carbon(DictGet(pef, inductor_type) * n_inductors, "INDUCTOR")
       ELSE IF weight = None THEN Carbon(0, "INDUCTOR")
       ELSE IF ~check(weight[1], "[mass]") THEN AssertionError
       ELSE IF wbf = None THEN AssertionError
       ELSE Carbon(weight[1].mag * wbf[1] * n_inductors, "INDUCTOR")

\* InductorModel.get_carbon tagging its two zero-valued returns as the capacitor
\* model tags its results
InductorModel_get_carbon_zero_passives(wbf, pef, n_inductors, inductor_type, weight) ==
    LET is_package_type ==
            inductor_type \in {"0201", "0402", "0603", "0805", "generic"}
    IN IF is_package_type /\ weight = None
       THEN IF ~DictHas(pef, inductor_type)
            THEN LET emission_factor == GetPkg0805OrFirst(pef)
                 IN IF emission_factor = None THEN IndexError
                    ELSE Carbon(emission_factor[1] * n_inductors, "INDUCTOR")
            ELSE Carbon(DictGet(pef, inductor_type) * n_inductors, "INDUCTOR")
       ELSE IF weight = None THEN Carbon(0, "PASSIVES")
       ELSE IF ~check(weight[1], "[mass]") THEN AssertionError
       ELSE IF wbf = None THEN Carbon(0, "PASSIVES")
       ELSE Carbon(weight[1].mag * wbf[1] * n_inductors, "INDUCTOR")

\* InductorModel.get_carbon taking the package method whenever no weight is
\* supplied, whatever the type
InductorModel_get_carbon_weightless_packaged(wbf, pef, n_inductors, inductor_type, weight) ==
    IF weight = None
    THEN IF ~DictHas(pef, inductor_type)
         THEN LET emission_factor == GetPkg0805OrFirst(pef)
              IN IF emission_factor = None THEN IndexError
                 ELSE Carbon(emission_factor[1] * n_inductors, "INDUCTOR")
         ELSE Carbon(DictGet(pef, inductor_type) * n_inductors, "INDUCTOR")
    ELSE IF ~check(weight[1], "[mass]") THEN AssertionError
    ELSE IF wbf = None THEN Carbon(0, "INDUCTOR")
    ELSE Carbon(weight[1].mag * wbf[1] * n_inductors, "INDUCTOR")

InductorModel_get_carbon(wbf, pef, n_inductors, inductor_type, weight) ==
    LET is_package_type ==
            inductor_type \in {"0201", "0402", "0603", "0805", "generic"}
    IN IF is_package_type /\ weight = None
       THEN IF ~DictHas(pef, inductor_type)
            THEN LET emission_factor == GetPkg0805OrFirst(pef)
                 IN IF emission_factor = None THEN IndexError
                    ELSE Carbon(emission_factor[1] * n_inductors, "INDUCTOR")
            ELSE Carbon(DictGet(pef, inductor_type) * n_inductors, "INDUCTOR")
       ELSE IF weight = None THEN Carbon(0, "INDUCTOR")
       ELSE IF ~check(weight[1], "[mass]") THEN AssertionError
       ELSE IF wbf = None THEN Carbon(0, "INDUCTOR")
       ELSE Carbon(weight[1].mag * wbf[1] * n_inductors, "INDUCTOR")

-----------------------------------------------------------------------------
(* CapacitorModel                                                          *)

\* carbon emitted per capacitor when its type is in neither table (300 g)
DEFAULT_CARBON_PER_CAPACITOR == 300
\* default weight of a capacitor (0.03 g, in hundredths of a gram)
DEFAULT_CAPACITOR_WEIGHT == Quantity(3, "[mass]")

\* manufacturing locations and their carbon intensity (load_ci_model)
EnergyLocation == {"JAPAN", "TAIWAN"}
ci_model(ci) == IF ci = "JAPAN" THEN 11 ELSE 13

RECURSIVE CapacitorLoad(_, _)
CapacitorLoad(data, acc) ==
    IF data = <<>> THEN acc
    ELSE LET key == Head(data)[1]
             value == Head(data)[2]
         IN CapacitorLoad(Tail(data),
                IF key \in CapacitorType
                THEN IF key \in {"mlcc", "tec", "generic"}
                     THEN [acc EXCEPT !.capacitor_model = DictSet(@, key, value)]
                     ELSE [acc EXCEPT !.package_model = DictSet(@, key, value)]
                ELSE acc)

CapacitorModel_init(data) ==
    CapacitorLoad(data, [capacitor_model |-> EmptyDict, package_model |-> EmptyDict])

\* CapacitorModel.get_carbon answering a type of neither table with zero
CapacitorModel_get_carbon_zero_default(cm, pm, ci, ctype, weight, n_caps) ==
    IF DictHas(pm, ctype)
    THEN Carbon(DictGet(pm, ctype) * n_caps, "PASSIVES")
    ELSE IF DictHas(cm, ctype)
    THEN Carbon(DictGet(cm, ctype) * weight.mag * n_caps * ci_model(ci), "PASSIVES")
    ELSE Carbon(0, "PASSIVES")

\* CapacitorModel.get_carbon with the package branch not multiplied by n_caps
CapacitorModel_get_carbon_package_single(cm, pm, ci, ctype, weight, n_caps) ==
    IF DictHas(pm, ctype)
    THEN Carbon(DictGet(pm, ctype), "PASSIVES")
    ELSE IF DictHas(cm, ctype)
    THEN Carbon(DictGet(cm, ctype) * weight.mag * n_caps * ci_model(ci), "PASSIVES")
    ELSE Carbon(DEFAULT_CARBON_PER_CAPACITOR * n_caps, "PASSIVES")

CapacitorModel_get_carbon(cm, pm, ci, ctype, weight, n_caps) ==
    IF DictHas(pm, ctype)
    THEN Carbon(DictGet(pm, ctype) * n_caps, "PASSIVES")
    ELSE IF DictHas(cm, ctype)
    THEN LET energy_per_kg == DictGet(cm, ctype)
             carbon_intensity == ci_model(ci)
         IN Carbon(energy_per_kg * weight.mag * n_caps * carbon_intensity, "PASSIVES")
    ELSE Carbon(DEFAULT_CARBON_PER_CAPACITOR * n_caps, "PASSIVES")

-----------------------------------------------------------------------------
(* PCBModel                                                                *)

\* keys of the PCB document: integer layer counts and strings
IntKey(i) == <<"int", i>>
StrKey(s) == <<s, 0>>
INTERPOLATED_AVERAGE_KEY == StrKey("cpla")

\* the nested mapping a document holds under typical_thickness: the value v
\* of the pair stands for the sub-mapping {2: v}
SubMapping(v) == <<<<IntKey(2), v>>>>

RECURSIVE PCBLoad(_, _)
PCBLoad(data, acc) ==
    IF data = <<>> THEN acc
    ELSE LET k == Head(data)[1]
             v == Head(data)[2]
         IN PCBLoad(Tail(data),
                IF k = INTERPOLATED_AVERAGE_KEY
                THEN [acc EXCEPT !.interpolated_cpla = Some(v)]
                ELSE IF k = StrKey("typical_thickness")
                THEN [acc EXCEPT !.typical_thickness =
                                     [i \in DOMAIN SubMapping(v) |->
                                         <<SubMapping(v)[i][1], SubMapping(v)[i][2]>>]]
                ELSE IF k = StrKey("carbon_coefficient")
                THEN [acc EXCEPT !.carbon_coefficient = Some(v)]
                ELSE [acc EXCEPT !.model = DictSet(@, k, v)])

PCBModel_init(data) ==
    LET loaded == PCBLoad(data, [model |-> EmptyDict, typical_thickness |-> EmptyDict,
                                 carbon_coefficient |-> None, interpolated_cpla |-> None])
    IN IF ~DictHas(loaded.model, INTERPOLATED_AVERAGE_KEY)
          /\ ~DictHas(data, INTERPOLATED_AVERAGE_KEY)
       THEN [loaded EXCEPT !.interpolated_cpla = None]
       ELSE loaded

\* PCBModel.get_carbon preferring the interpolated average to the layer's entry
PCBModel_get_carbon_interpolates_first(m, cc, cpla, area, layers, thickness) ==
    IF ~check(area, "[length] ** 2") THEN AssertionError
    ELSE IF thickness # None /\ cc # None
    THEN Carbon(area.mag * layers * thickness[1] * cc[1], "FABRICATION")
    ELSE IF cpla # None
    THEN Carbon(cpla[1] * layers * area.mag, "FABRICATION")
    ELSE IF DictHas(m, IntKey(layers))
    THEN Carbon(DictGet(m, IntKey(layers)) * area.mag, "FABRICATION")
    ELSE SystemExit

\* PCBModel.get_carbon taking the thickness path only for a tabulated layer count
PCBModel_get_carbon_thickness_tabulated(m, cc, cpla, area, layers, thickness) ==
    IF ~check(area, "[length] ** 2") THEN AssertionError
    ELSE IF thickness # None /\ cc # None /\ DictHas(m, IntKey(layers))
    THEN Carbon(area.mag * layers * thickness[1] * cc[1], "FABRICATION")
    ELSE IF DictHas(m, IntKey(layers))
    THEN Carbon(DictGet(m, IntKey(layers)) * area.mag, "FABRICATION")
    ELSE IF cpla # None
    THEN Carbon(cpla[1] * layers * area.mag, "FABRICATION")
    ELSE SystemExit

PCBModel_get_carbon(m, cc, cpla, area, layers, thickness) ==
    IF ~check(area, "[length] ** 2") THEN AssertionError
    ELSE IF thickness # None /\ cc # None
    THEN Carbon(area.mag * layers * thickness[1] * cc[1], "FABRICATION")
    ELSE IF DictHas(m, IntKey(layers))
    THEN Carbon(DictGet(m, IntKey(layers)) * area.mag, "FABRICATION")
    ELSE IF cpla # None
    THEN Carbon(cpla[1] * layers * area.mag, "FABRICATION")
    ELSE SystemExit

-----------------------------------------------------------------------------
(* Inputs: configuration documents and call arguments.                     *)

Categories == {"Active", "Capacitor", "Connector", "Diode", "Inductor", "Other",
               "PCB", "Resistor", "Switch"}

\* the keys the documents of a category are drawn from
ConfigKeys(c) ==
    CASE c = "Active" -> {"transistor_bjt", "active_generic", "generic", UnknownKey}
      [] c = "Capacitor" -> {"mlcc", "generic", "0402", "0805", UnknownKey}
      [] c = "Connector" -> {"pci", "peripheral", UnknownKey}
      [] c = "Diode" -> {"glass_smd", "led", "generic", UnknownKey}
      [] c = "Inductor" -> {"weight_based", "0402", "0805", "generic", UnknownKey}
      [] c = "Other" -> {"passive_generic", "generic", UnknownKey}
      [] c = "Resistor" -> {"0402", "0603", "0805", "generic", UnknownKey}
      [] c = "Switch" -> {"generic", UnknownKey}
      [] c = "PCB" -> {IntKey(2), INTERPOLATED_AVERAGE_KEY,
                       StrKey("carbon_coefficient"), StrKey("typical_thickness")}

\* documents: one to MaxPairs pairs, each key once (a YAML mapping)
Documents(keys) ==
    UNION {{d \in [1..len -> keys \X FactorValues] :
               \A i, j \in 1..len : d[i][1] = d[j][1] => i = j} : len \in 1..MaxPairs}

\* weights and areas a caller hands in, of the right and of a wrong dimension
Weights == {Quantity(5, "[mass]"), Quantity(7, "[mass]"), Quantity(5, "[length]")}
Areas == {Quantity(5, "[length] ** 2"), Quantity(5, "[length]")}
Thicknesses == {None, Some(7)}
Counts == 0..MaxN
LayerCounts == 1..MaxLayers

-----------------------------------------------------------------------------
(* The state machine.                                                      *)

NoTables ==
    /\ emission_factors = EmptyDict
    /\ capacitor_model = EmptyDict
    /\ package_model = EmptyDict
    /\ weight_based_factor = None
    /\ package_emission_factors = EmptyDict
    /\ model = EmptyDict
    /\ typical_thickness = EmptyDict
    /\ carbon_coefficient = None
    /\ interpolated_cpla = None

Init ==
    /\ \E c \in Categories : cat = c /\ model_data \in Documents(ConfigKeys(c))
    /\ pc = "new"
    /\ NoTables
    /\ call = None
    /\ ret = NotCalled

\* a constructor of a model with the one table emission_factors
Construct(c, built) ==
    /\ pc = "new"
    /\ cat = c
    /\ pc' = IF built.exit THEN "exited" ELSE "ready"
    /\ emission_factors' = built.table
    /\ UNCHANGED <<cat, model_data, capacitor_model, package_model, weight_based_factor,
                   package_emission_factors, model, typical_thickness,
                   carbon_coefficient, interpolated_cpla, call, ret>>

ActiveInit == Construct("Active", ActiveModel_init(model_data))
ConnectorInit == Construct("Connector", ConnectorModel_init(model_data))
DiodeInit == Construct("Diode", DiodeModel_init(model_data))
OtherInit == Construct("Other", OtherModel_init(model_data))
ResistorInit == Construct("Resistor", ResistorModel_init(model_data))
SwitchInit == Construct("Switch", SwitchModel_init(model_data))

CapacitorInit ==
    /\ pc = "new"
    /\ cat = "Capacitor"
    /\ pc' = "ready"
    /\ capacitor_model' = CapacitorModel_init(model_data).capacitor_model
    /\ package_model' = CapacitorModel_init(model_data).package_model
    /\ UNCHANGED <<cat, model_data, emission_factors, weight_based_factor,
                   package_emission_factors, model, typical_thickness,
                   carbon_coefficient, interpolated_cpla, call, ret>>

InductorInit ==
    /\ pc = "new"
    /\ cat = "Inductor"
    /\ pc' = "ready"
    /\ weight_based_factor' = InductorModel_init(model_data).weight_based_factor
    /\ package_emission_factors' =
           InductorModel_init(model_data).package_emission_factors
    /\ UNCHANGED <<cat, model_data, emission_factors, capacitor_model, package_model,
                   model, typical_thickness, carbon_coefficient, interpolated_cpla,
                   call, ret>>

PCBInit ==
    /\ pc = "new"
    /\ cat = "PCB"
    /\ pc' = "ready"
    /\ model' = PCBModel_init(model_data).model
    /\ typical_thickness' = PCBModel_init(model_data).typical_thickness
    /\ carbon_coefficient' = PCBModel_init(model_data).carbon_coefficient
    /\ interpolated_cpla' = PCBModel_init(model_data).interpolated_cpla
    /\ UNCHANGED <<cat, model_data, emission_factors, capacitor_model, package_model,
                   weight_based_factor, package_emission_factors, call, ret>>

\* a get_carbon call that stores the factor it fell back to under the requested
\* type, so that the next lookup of that type finds an entry
Called_fallback_stored(args, outcome) ==
    /\ call' = args
    /\ ret' = outcome
    /\ pc' = IF outcome.kind = "SystemExit" THEN "exited" ELSE "returned"
    /\ emission_factors' =
           IF /\ cat = "Resistor"
              /\ outcome.kind = "Carbon"
              /\ ~DictHas(emission_factors, args.type)
           THEN DictSet(emission_factors, args.type,
                        GetPkg0805OrFirst(emission_factors)[1])
           ELSE emission_factors
    /\ UNCHANGED <<cat, model_data, capacitor_model, package_model, weight_based_factor,
                   package_emission_factors, model, typical_thickness,
                   carbon_coefficient, interpolated_cpla>>

\* a get_carbon call that makes the factor it fell back to the GENERIC entry of
\* the table, so that later calls fall back to the factor used last
Called_fallback_as_generic(args, outcome) ==
    /\ call' = args
    /\ ret' = outcome
    /\ pc' = IF outcome.kind = "SystemExit" THEN "exited" ELSE "returned"
    /\ emission_factors' =
           IF /\ cat = "Resistor"
              /\ outcome.kind = "Carbon"
              /\ ~DictHas(emission_factors, args.type)
           THEN DictSet(emission_factors, "generic",
                        GetPkg0805OrFirst(emission_factors)[1])
           ELSE emission_factors
    /\ UNCHANGED <<cat, model_data, capacitor_model, package_model, weight_based_factor,
                   package_emission_factors, model, typical_thickness,
                   carbon_coefficient, interpolated_cpla>>

\* a get_carbon call on the constructed instance (pc = "ready"): the arguments
\* and the outcome are recorded; exit(-1) inside the call ends the process, any other outcome
\* (a Carbon or an exception) goes back to the caller
Called(args, outcome) ==
    /\ call' = args
    /\ ret' = outcome
    /\ pc' = IF outcome.kind = "SystemExit" THEN "exited" ELSE "returned"
    /\ UNCHANGED <<cat, model_data, tables>>

\* the caller has taken the outcome and may call the instance again
Resume ==
    /\ pc = "returned"
    /\ pc' = "ready"
    /\ call' = None
    /\ ret' = NotCalled
    /\ UNCHANGED <<cat, model_data, tables>>

ActiveGetCarbon ==
    /\ pc = "ready"
    /\ cat = "Active"
    /\ \E w \in Weights, t \in ActiveType \cup {ForeignType}, n \in Counts :
            Called([weight |-> w, type |-> t, n |-> n],
                   ActiveModel_get_carbon(emission_factors, w, t, n))

ConnectorGetCarbon ==
    /\ pc = "ready"
    /\ cat = "Connector"
    /\ \E w \in Weights, t \in ConnectorType \cup {ForeignType}, n \in Counts :
            Called([weight |-> w, type |-> t, n |-> n],
                   ConnectorModel_get_carbon(emission_factors, w, t, n))

DiodeGetCarbon ==
    /\ pc = "ready"
    /\ cat = "Diode"
    /\ \E w \in Weights, t \in DiodeType \cup {ForeignType}, n \in Counts :
            Called([weight |-> w, type |-> t, n |-> n],
                   DiodeModel_get_carbon(emission_factors, w, t, n))

OtherGetCarbon ==
    /\ pc = "ready"
    /\ cat = "Other"
    /\ \E w \in Weights, t \in OtherType \cup {ForeignType}, n \in Counts :
            Called([weight |-> w, type |-> t, n |-> n],
                   OtherModel_get_carbon(emission_factors, w, t, n))

SwitchGetCarbon ==
    /\ pc = "ready"
    /\ cat = "Switch"
    /\ \E w \in Weights, t \in SwitchType \cup {ForeignType}, n \in Counts :
            Called([weight |-> w, type |-> t, n |-> n],
                   SwitchModel_get_carbon(emission_factors, w, t, n))

\* explicit says whether the caller passed resistor_type; without it the
\* parameter takes its default, ResistorType.PKG_0805
ResistorGetCarbon ==
    /\ pc = "ready"
    /\ cat = "Resistor"
    /\ \E explicit \in BOOLEAN, t \in ResistorType \cup {ForeignType}, n \in Counts :
            /\ ~explicit => t = "0805"
            /\ Called([explicit |-> explicit, type |-> t, n |-> n],
                      ResistorModel_get_carbon(emission_factors, n, t))

InductorGetCarbon ==
    /\ pc = "ready"
    /\ cat = "Inductor"
    /\ \E w \in {None} \cup {Some(q) : q \in Weights},
           t \in InductorType \cup {ForeignType}, n \in Counts :
            Called([weight |-> w, type |-> t, n |-> n],
                   InductorModel_get_carbon(weight_based_factor, package_emission_factors,
                                            n, t, w))

CapacitorGetCarbon ==
    /\ pc = "ready"
    /\ cat = "Capacitor"
    /\ \E ci \in EnergyLocation, t \in CapacitorType \cup {ForeignType},
           w \in Weights \cup {DEFAULT_CAPACITOR_WEIGHT}, n \in Counts :
            Called([ci |-> ci, weight |-> w, type |-> t, n |-> n],
                   CapacitorModel_get_carbon(capacitor_model, package_model, ci, t, w, n))

PCBGetCarbon ==
    /\ pc = "ready"
    /\ cat = "PCB"
    /\ \E a \in Areas, l \in LayerCounts, th \in Thicknesses :
            Called([area |-> a, layers |-> l, thickness |-> th],
                   PCBModel_get_carbon(model, carbon_coefficient, interpolated_cpla,
                                       a, l, th))

Next ==
    \/ ActiveInit
    \/ CapacitorInit
    \/ ConnectorInit
    \/ DiodeInit
    \/ InductorInit
    \/ OtherInit
    \/ PCBInit
    \/ ResistorInit
    \/ SwitchInit
    \/ ActiveGetCarbon
    \/ CapacitorGetCarbon
    \/ ConnectorGetCarbon
    \/ DiodeGetCarbon
    \/ InductorGetCarbon
    \/ OtherGetCarbon
    \/ PCBGetCarbon
    \/ ResistorGetCarbon
    \/ SwitchGetCarbon
    \/ Resume

Spec == Init /\ [][Next]_vars

-----------------------------------------------------------------------------
(* Vocabulary of the properties.                                           *)

MassBased == {"Active", "Connector", "Diode", "Other", "Switch"}
PackageSizes == {"0201", "0402", "0603", "0805"}

\* the instance exists: its constructor returned
Constructed == pc \in {"ready", "returned"} \/ (pc = "exited" /\ ret.kind = "SystemExit")
\* a get_carbon call has just ended, with the outcome in ret
CallEnded == ret.kind # "none"
\* the member a category falls back to
DefaultMember(c) == IF c = "Connector" THEN "peripheral" ELSE "generic"

-----------------------------------------------------------------------------
(* C1 *)

\* C1: on a constructed mass-based model (Active, Connector, Diode, Other,
\* Switch), get_carbon(w, t, n) with a mass-dimensioned w returns exactly
\* w * factor * n, where factor is the table entry of t when t has one and the
\* entry of the category's default member otherwise (GENERIC; PERIPHERAL for
\* Connector); with n = 0 the result is a zero Carbon, not an error.
C1_MassBasedProduct ==
    (CallEnded /\ cat \in MassBased /\ check(call.weight, "[mass]")) =>
        /\ ret.kind = "Carbon"
        /\ DictHas(emission_factors, DefaultMember(cat))
        /\ ret.carbon =
               call.weight.mag
               * (IF DictHas(emission_factors, call.type)
                  THEN DictGet(emission_factors, call.type)
                  ELSE DictGet(emission_factors, DefaultMember(cat)))
               * call.n
        /\ (call.n = 0 => ret.carbon = 0)

\* a call that took the fallback entry and returned a non-zero product
C1_Witness ==
    /\ CallEnded
    /\ cat \in MassBased
    /\ check(call.weight, "[mass]")
    /\ ~DictHas(emission_factors, call.type)
    /\ call.n = 2
    /\ ret = Carbon(call.weight.mag * DictGet(emission_factors, DefaultMember(cat)) * 2,
                    ret.source)
    /\ ret.carbon > 0

-----------------------------------------------------------------------------
(* C2 *)

\* the weight or area a call supplied, if it supplied one
SuppliedDimensioned ==
    CASE cat \in MassBased \cup {"Capacitor"} -> Some(call.weight)
      [] cat = "Inductor" -> call.weight
      [] cat = "PCB" -> Some(call.area)
      [] OTHER -> None

\* C2: for every model whose get_carbon takes a weight or an area (Active,
\* Capacitor, Connector, Diode, Inductor, Other, Switch, PCB), a call that
\* supplies a weight or area of an incompatible dimension aborts and never
\* returns a Carbon.
C2_WrongDimensionAborts ==
    (CallEnded /\ SuppliedDimensioned # None
       /\ ~check(SuppliedDimensioned[1], IF cat = "PCB" THEN "[length] ** 2" ELSE "[mass]"))
        => ret.kind = "AssertionError"

-----------------------------------------------------------------------------
(* C3 *)

\* the table of a type-keyed category in which its fallback entry would live
FactorTable ==
    CASE cat = "Capacitor" -> capacitor_model
      [] cat = "Inductor" -> package_emission_factors
      [] OTHER -> emission_factors

\* C3 as stated: every constructed type-keyed model (all but PCB) has an entry
\* under GENERIC (read for Connector as its default member PERIPHERAL) in its
\* emission-factor table; otherwise construction terminated.
C3_GenericAlwaysPresent ==
    (Constructed /\ cat # "PCB") => DictHas(FactorTable, DefaultMember(cat))

\* C3 amended: Active, Diode, Other and Switch are constructed only with a
\* GENERIC entry, Connector only with PERIPHERAL and PCI; Resistor is constructed
\* with any non-empty table, which has GENERIC only if the document holds
\* generic or 0805; the constructors of Inductor and Capacitor (and PCB) never
\* terminate the process, whatever the document holds, and their tables have
\* GENERIC only if the document provides it (Inductor: generic or 0805).
C3_ConstructionGuarantees ==
    /\ (Constructed /\ cat \in {"Active", "Diode", "Other", "Switch"})
           => DictHas(emission_factors, "generic")
    /\ (Constructed /\ cat = "Connector")
           => DictHas(emission_factors, "peripheral") /\ DictHas(emission_factors, "pci")
    /\ (Constructed /\ cat = "Resistor")
           => /\ emission_factors # EmptyDict
              /\ DictHas(emission_factors, "generic")
                     <=> (DictHas(model_data, "generic") \/ DictHas(model_data, "0805"))
    /\ (Constructed /\ cat = "Inductor")
           => (DictHas(package_emission_factors, "generic")
                  <=> (DictHas(model_data, "generic") \/ DictHas(model_data, "0805")))
    /\ (Constructed /\ cat = "Capacitor")
           => (DictHas(capacitor_model, "generic") <=> DictHas(model_data, "generic"))
    /\ (pc = "exited" /\ ~CallEnded)
           => /\ cat \notin {"Inductor", "Capacitor", "PCB"}
              /\ ~DictHas(LoadFactors(model_data,
                                      CASE cat = "Active" -> ActiveType
                                        [] cat = "Connector" -> ConnectorType
                                        [] cat = "Diode" -> DiodeType
                                        [] cat = "Other" -> OtherType
                                        [] cat = "Resistor" -> ResistorType
                                        [] cat = "Switch" -> SwitchType,
                                      EmptyDict), "generic")

\* a Diode built from a document without a generic entry: GENERIC was installed
\* from glass_smd
C3_Witness ==
    /\ pc = "ready"
    /\ cat = "Diode"
    /\ ~DictHas(model_data, "generic")
    /\ DictHas(emission_factors, "generic")
    /\ DictGet(emission_factors, "generic") = DictGet(model_data, "glass_smd")

-----------------------------------------------------------------------------
(* C4 *)

\* the requested type has no entry in the table the call looks it up in
TypeUnresolved ==
    CASE cat \in MassBased -> ~DictHas(emission_factors, call.type)
      [] cat = "Resistor" -> ~DictHas(emission_factors, call.type)
      [] cat = "Inductor" -> /\ call.weight = None
                             /\ call.type \in PackageSizes \cup {"generic"}
                             /\ ~DictHas(package_emission_factors, call.type)
      [] cat = "Capacitor" -> /\ ~DictHas(package_model, call.type)
                              /\ ~DictHas(capacitor_model, call.type)
      [] OTHER -> FALSE

\* the call's weight, when it has one, is a mass
DimensionValid ==
    CASE cat \in MassBased \cup {"Capacitor"} -> check(call.weight, "[mass]")
      [] cat = "Inductor" -> call.weight = None \/ check(call.weight[1], "[mass]")
      [] cat = "PCB" -> check(call.area, "[length] ** 2")
      [] OTHER -> TRUE

\* C4: on a constructed model, a get_carbon call with dimension-valid arguments
\* and a requested type without a table entry never raises or terminates: it
\* returns a Carbon computed from the fallback factor.
C4_UnresolvedTypeReturnsCarbon ==
    (CallEnded /\ cat # "PCB" /\ DimensionValid /\ TypeUnresolved) => ret.kind = "Carbon"

-----------------------------------------------------------------------------
(* C5 *)

\* a Resistor call that left the type to its default or asked for a type
\* without a table entry
ResistorDefaulted ==
    CallEnded /\ cat = "Resistor"
    /\ (~call.explicit \/ ~DictHas(emission_factors, call.type))

\* C5 as stated: on any constructed Resistor, get_carbon(n) without a type and
\* get_carbon(n, t) for a type t without a table entry return (0805 factor) * n.
\* (A zero result for n = 0 is taken to satisfy it with any factor.)
C5_ResistorAlways0805 ==
    ResistorDefaulted =>
        /\ ret.kind = "Carbon"
        /\ call.n = 0 => ret.carbon = 0
        /\ call.n > 0 =>
               /\ DictHas(emission_factors, "0805")
               /\ ret.carbon = DictGet(emission_factors, "0805") * call.n

\* C5 amended: on a constructed Resistor whose table has an 0805 entry,
\* get_carbon(n) without a type and get_carbon(n, t) for a type t without a
\* table entry return (0805 factor) * n, whatever factor GENERIC holds.
C5_Resistor0805WhenConfigured ==
    (ResistorDefaulted /\ DictHas(model_data, "0805")) =>
        ret = Carbon(DictGet(model_data, "0805") * call.n, "FABRICATION")

\* an unlisted type on a table whose GENERIC factor differs from the 0805 one:
\* the result is the 0805 product, not the GENERIC one
C5_Witness ==
    /\ ResistorDefaulted
    /\ call.explicit
    /\ call.n = 1
    /\ DictHas(emission_factors, "0805")
    /\ DictHas(emission_factors, "generic")
    /\ DictGet(emission_factors, "generic") # DictGet(emission_factors, "0805")
    /\ ret.carbon = DictGet(emission_factors, "0805")

-----------------------------------------------------------------------------
(* C6 *)

\* an Inductor call with a weight argument of the mass dimension
InductorWeighed ==
    CallEnded /\ cat = "Inductor" /\ call.weight # None
    /\ check(call.weight[1], "[mass]")

\* an Inductor call without a weight argument for a package size
InductorPackaged ==
    CallEnded /\ cat = "Inductor" /\ call.weight = None /\ call.type \in PackageSizes

\* C6 as stated: whenever a weight is supplied the result is
\* weight * weight_based_factor * n for every requested type; without a weight
\* and with a package size as type the result is (package-table factor) * n.
\* (A zero result for n = 0 is taken to satisfy it with any factor.)
C6_InductorModeByPresence ==
    /\ InductorWeighed =>
           /\ ret.kind = "Carbon"
           /\ call.n = 0 => ret.carbon = 0
           /\ call.n > 0 =>
                  /\ weight_based_factor # None
                  /\ ret.carbon = call.weight[1].mag * weight_based_factor[1] * call.n
    /\ InductorPackaged =>
           /\ ret.kind = "Carbon"
           /\ \E i \in DOMAIN package_emission_factors :
                  ret.carbon = package_emission_factors[i][2] * call.n

\* C6 amended: with a mass-dimensioned weight supplied, the result is
\* weight * weight_based_factor * n for every requested type when a
\* weight_based factor is configured, and a zero Carbon when none is; without
\* a weight and with a package size as type the weight-based factor is not
\* used: the result is factor * n for the factor of the type's entry, else of
\* the 0805 entry, else of the first entry of the package table, and the call
\* raises IndexError when the package table is empty.
C6_InductorModeByPresenceAmended ==
    /\ InductorWeighed =>
           ret = IF DictHas(model_data, "weight_based")
                 THEN Carbon(call.weight[1].mag * DictGet(model_data, "weight_based")
                             * call.n, "INDUCTOR")
                 ELSE Carbon(0, "INDUCTOR")
    /\ InductorPackaged =>
           ret = IF DictHas(package_emission_factors, call.type)
                 THEN Carbon(DictGet(package_emission_factors, call.type) * call.n,
                             "INDUCTOR")
                 ELSE IF DictHas(package_emission_factors, "0805")
                 THEN Carbon(DictGet(package_emission_factors, "0805") * call.n,
                             "INDUCTOR")
                 ELSE IF package_emission_factors # EmptyDict
                 THEN Carbon(package_emission_factors[1][2] * call.n, "INDUCTOR")
                 ELSE IndexError

\* a weight supplied together with a configured package size: the weight-based
\* product is returned, and it differs from the package product
C6_Witness ==
    /\ InductorWeighed
    /\ call.type \in PackageSizes
    /\ DictHas(package_emission_factors, call.type)
    /\ weight_based_factor # None
    /\ call.n = 1
    /\ ret.carbon = call.weight[1].mag * weight_based_factor[1]
    /\ ret.carbon # DictGet(package_emission_factors, call.type)

-----------------------------------------------------------------------------
(* C7 *)

\* C7: an Inductor built from a document without a weight_based entry answers
\* every get_carbon call that supplies a mass-dimensioned weight with a zero
\* Carbon tagged INDUCTOR, for every type and n; it never raises or terminates.
C7_InductorNoWeightFactorZero ==
    (InductorWeighed /\ ~DictHas(model_data, "weight_based")) =>
        /\ ret = Carbon(0, "INDUCTOR")
        /\ pc = "returned"

\* such a call for several inductors of a package size that has a factor
C7_Witness ==
    /\ InductorWeighed
    /\ ~DictHas(model_data, "weight_based")
    /\ call.n = 2
    /\ DictHas(package_emission_factors, call.type)
    /\ ret = Carbon(0, "INDUCTOR")

-----------------------------------------------------------------------------
(* C8 *)

\* C8: Capacitor's get_carbon is a three-way dispatch on the requested type, for
\* every document: a type configured as a package size gives factor * n,
\* whatever the weight and the location; else a type configured as an energy
\* type (mlcc, tec, generic) gives factor * weight * n * carbon_intensity(location);
\* else (the type is in neither table, an unconfigured generic included) the
\* result is DEFAULT_CARBON_PER_CAPACITOR * n, which is not zero for n > 0 and
\* not an error.
C8_CapacitorDispatch ==
    (CallEnded /\ cat = "Capacitor") =>
        /\ pc = "returned"
        /\ ret =
             IF call.type \in PackageSizes /\ DictHas(model_data, call.type)
             THEN Carbon(DictGet(model_data, call.type) * call.n, "PASSIVES")
             ELSE IF call.type \in {"mlcc", "tec", "generic"}
                     /\ DictHas(model_data, call.type)
             THEN Carbon(DictGet(model_data, call.type) * call.weight.mag * call.n
                         * ci_model(call.ci), "PASSIVES")
             ELSE Carbon(DEFAULT_CARBON_PER_CAPACITOR * call.n, "PASSIVES")
        /\ (call.n > 0 /\ ~DictHas(model_data, call.type)) => ret.carbon > 0

\* generic requested from a document that configures other types but no
\* generic: the rescue default is returned
C8_Witness ==
    /\ CallEnded
    /\ cat = "Capacitor"
    /\ call.type = "generic"
    /\ capacitor_model # EmptyDict
    /\ package_model # EmptyDict
    /\ ~DictHas(capacitor_model, "generic")
    /\ call.n = 2
    /\ ret = Carbon(DEFAULT_CARBON_PER_CAPACITOR * 2, "PASSIVES")

-----------------------------------------------------------------------------
(* C9 *)

\* what the layer-area path yields for area a and layer count l, read off the
\* document: the entry of l, else the interpolated average times l, else the
\* process ends
LayerAreaOutcome(a, l) ==
    IF DictHas(model_data, IntKey(l))
    THEN Carbon(DictGet(model_data, IntKey(l)) * a.mag, "FABRICATION")
    ELSE IF DictHas(model_data, INTERPOLATED_AVERAGE_KEY)
    THEN Carbon(DictGet(model_data, INTERPOLATED_AVERAGE_KEY) * l * a.mag, "FABRICATION")
    ELSE SystemExit

\* a PCB call with an area of the area dimension
PCBCalled == CallEnded /\ cat = "PCB" /\ check(call.area, "[length] ** 2")

\* C9: PCB get_carbon(area = A, layers = L) without thickness and with an
\* area-dimensioned A returns table[L] * A when L has an entry (the interpolated
\* average is not used, even when configured), I * L * A when L has none and an
\* interpolated average I is configured, and terminates the process without a
\* result when L has no entry and no interpolated average is configured.
C9_PCBLayerArea ==
    (PCBCalled /\ call.thickness = None) =>
        /\ ret = LayerAreaOutcome(call.area, call.layers)
        /\ pc = (IF ret.kind = "SystemExit" THEN "exited" ELSE "returned")

\* a tabulated layer count on a document that also configures an interpolated
\* average giving another product
C9_Witness ==
    /\ PCBCalled
    /\ call.thickness = None
    /\ DictHas(model, IntKey(call.layers))
    /\ interpolated_cpla # None
    /\ interpolated_cpla[1] * call.layers # DictGet(model, IntKey(call.layers))
    /\ ret = Carbon(DictGet(model, IntKey(call.layers)) * call.area.mag, "FABRICATION")

-----------------------------------------------------------------------------
(* C10 *)

\* C10: PCB takes the thickness path if and only if a thickness is supplied and
\* a carbon_coefficient is configured; the result is then
\* area * layers * thickness * carbon_coefficient, without consulting the layer
\* table or the interpolated average (so no fatal termination, even for an
\* untabulated layer count); in every other case exactly the layer-area path is
\* taken.
C10_PCBThicknessPath ==
    PCBCalled =>
        IF call.thickness # None /\ DictHas(model_data, StrKey("carbon_coefficient"))
        THEN /\ ret = Carbon(call.area.mag * call.layers * call.thickness[1]
                             * DictGet(model_data, StrKey("carbon_coefficient")),
                             "FABRICATION")
             /\ pc = "returned"
        ELSE /\ ret = LayerAreaOutcome(call.area, call.layers)
             /\ pc = (IF ret.kind = "SystemExit" THEN "exited" ELSE "returned")

\* the thickness path on a layer count that the layer-area path could not
\* answer: no entry, no interpolated average
C10_Witness ==
    /\ PCBCalled
    /\ call.thickness # None
    /\ carbon_coefficient # None
    /\ ~DictHas(model, IntKey(call.layers))
    /\ interpolated_cpla = None
    /\ pc = "returned"
    /\ ret = Carbon(call.area.mag * call.layers * call.thickness[1]
                    * carbon_coefficient[1], "FABRICATION")

-----------------------------------------------------------------------------
(* C11 *)

\* the constructor terminated the process: no instance exists
ConstructionFatal == pc = "exited" /\ ~CallEnded

\* C11: the constructor of Connector terminates the process whenever pci or
\* peripheral is absent from the document, that of Switch whenever generic is
\* absent, unknown keys of the document notwithstanding; so every Connector or
\* Switch instance that exists holds its required members, and each of its
\* get_carbon calls finds the factor it needs and returns a Carbon (or aborts on
\* the weight's dimension), never for want of a required factor.
C11_RequiredKeysOrFatal ==
    /\ (cat = "Connector" /\ pc # "new") =>
           /\ ConstructionFatal
                  <=> ~(DictHas(model_data, "pci") /\ DictHas(model_data, "peripheral"))
           /\ ~ConstructionFatal =>
                  DictHas(emission_factors, "pci") /\ DictHas(emission_factors, "peripheral")
    /\ (cat = "Switch" /\ pc # "new") =>
           /\ ConstructionFatal <=> ~DictHas(model_data, "generic")
           /\ ~ConstructionFatal => DictHas(emission_factors, "generic")
    /\ (cat \in {"Connector", "Switch"} /\ CallEnded) =>
           /\ DictHas(emission_factors, call.type)
                  \/ DictHas(emission_factors, DefaultMember(cat))
           /\ ret.kind = (IF check(call.weight, "[mass]") THEN "Carbon"
                          ELSE "AssertionError")

\* a Connector document with an unknown key and the fallback member peripheral,
\* but without pci: construction was fatal
C11_Witness ==
    /\ cat = "Connector"
    /\ DictHas(model_data, UnknownKey)
    /\ DictHas(model_data, "peripheral")
    /\ ~DictHas(model_data, "pci")
    /\ ConstructionFatal

-----------------------------------------------------------------------------
(* C12 *)

\* C12: for the categories with a generic-default synonym (Active, Diode,
\* Inductor, Resistor), when the document has an explicit generic entry the
\* factor stored under GENERIC after construction is that explicit value,
\* whatever the synonym's value is.
C12_ExplicitGenericKept ==
    (Constructed /\ cat \in {"Active", "Diode", "Inductor", "Resistor"}
       /\ DictHas(model_data, "generic")) =>
        /\ DictHas(FactorTable, "generic")
        /\ DictGet(FactorTable, "generic") = DictGet(model_data, "generic")

-----------------------------------------------------------------------------
(* C13 *)

\* the type enumeration of a type-keyed category
TypeEnum(c) ==
    CASE c = "Active" -> ActiveType
      [] c = "Capacitor" -> CapacitorType
      [] c = "Connector" -> ConnectorType
      [] c = "Diode" -> DiodeType
      [] c = "Inductor" -> InductorType
      [] c = "Other" -> OtherType
      [] c = "Resistor" -> ResistorType
      [] c = "Switch" -> SwitchType

\* the document without the pairs whose key is no member of the enumeration
Stripped == SelectSeq(model_data, LAMBDA p : p[1] \in TypeEnum(cat))

\* what the constructor of category c makes of a document: whether it
\* terminates the process, and every table and scalar of the instance
FreshInstance(c, data) ==
    LET blank == [exit |-> FALSE,
                  emission_factors |-> EmptyDict,
                  capacitor_model |-> EmptyDict,
                  package_model |-> EmptyDict,
                  weight_based_factor |-> None,
                  package_emission_factors |-> EmptyDict,
                  model |-> EmptyDict,
                  typical_thickness |-> EmptyDict,
                  carbon_coefficient |-> None,
                  interpolated_cpla |-> None]
        single(b) == [blank EXCEPT !.exit = b.exit, !.emission_factors = b.table]
    IN CASE c = "Active" -> single(ActiveModel_init(data))
         [] c = "Connector" -> single(ConnectorModel_init(data))
         [] c = "Diode" -> single(DiodeModel_init(data))
         [] c = "Other" -> single(OtherModel_init(data))
         [] c = "Resistor" -> single(ResistorModel_init(data))
         [] c = "Switch" -> single(SwitchModel_init(data))
         [] c = "Capacitor" ->
                LET b == CapacitorModel_init(data)
                IN [blank EXCEPT !.capacitor_model = b.capacitor_model,
                                 !.package_model = b.package_model]
         [] c = "Inductor" ->
                LET b == InductorModel_init(data)
                IN [blank EXCEPT !.weight_based_factor = b.weight_based_factor,
                                 !.package_emission_factors = b.package_emission_factors]
         [] c = "PCB" ->
                LET b == PCBModel_init(data)
                IN [blank EXCEPT !.model = b.model,
                                 !.typical_thickness = b.typical_thickness,
                                 !.carbon_coefficient = b.carbon_coefficient,
                                 !.interpolated_cpla = b.interpolated_cpla]

\* the instance as it is now
ThisInstance ==
    [exit |-> ConstructionFatal,
     emission_factors |-> emission_factors,
     capacitor_model |-> capacitor_model,
     package_model |-> package_model,
     weight_based_factor |-> weight_based_factor,
     package_emission_factors |-> package_emission_factors,
     model |-> model,
     typical_thickness |-> typical_thickness,
     carbon_coefficient |-> carbon_coefficient,
     interpolated_cpla |-> interpolated_cpla]

\* C13: for every type-keyed model (all except PCB), the pairs of the document
\* whose key is not a member of the category's enumeration change neither
\* whether construction succeeds or terminates the process nor the contents of
\* the tables: the instance is the one the constructor makes of the document
\* without those pairs.
C13_UnknownKeysSkipped ==
    (pc # "new" /\ cat # "PCB") => ThisInstance = FreshInstance(cat, Stripped)

\* a Connector built from a document that holds an unknown key next to both
\* required members: the table has the two members only
C13_Witness ==
    /\ pc = "ready"
    /\ cat = "Connector"
    /\ DictHas(model_data, UnknownKey)
    /\ Len(model_data) = 3
    /\ DictKeys(emission_factors) = {"pci", "peripheral"}
    /\ Stripped # model_data

-----------------------------------------------------------------------------
(* C14 *)

\* the source tag of a category's results
SourceTag(c) ==
    CASE c = "Active" -> "ACTIVE"
      [] c = "Connector" -> "CONNECTOR"
      [] c = "Switch" -> "SWITCH"
      [] c = "Other" -> "OTHER"
      [] c = "Inductor" -> "INDUCTOR"
      [] c = "Capacitor" -> "PASSIVES"
      [] c \in {"Diode", "Resistor", "PCB"} -> "FABRICATION"

\* C14: every Carbon a model returns carries the one source tag of its category,
\* on every return path (fallback, zero-valued and rescue-default returns
\* included): Active ACTIVE, Connector CONNECTOR, Switch SWITCH, Other OTHER,
\* Inductor INDUCTOR, Capacitor PASSIVES, Diode, Resistor and PCB FABRICATION.
C14_FixedSourceTag ==
    (CallEnded /\ ret.kind = "Carbon") => ret.source = SourceTag(cat)

\* a zero-valued return of Inductor: no weight and a type that is no package
\* type, on an instance with factors configured
C14_Witness ==
    /\ CallEnded
    /\ cat = "Inductor"
    /\ call.weight = None
    /\ call.type = ForeignType
    /\ package_emission_factors # EmptyDict
    /\ ret = Carbon(0, "INDUCTOR")

-----------------------------------------------------------------------------
(* C15 *)

\* C15: for every model, a get_carbon call (whether it returns a Carbon, also
\* by a fallback branch or zero-valued, or aborts on a dimension precondition)
\* and the caller's going on to the next call leave every table and configured
\* scalar of the instance as they are, so that after any finite sequence of
\* calls they are as they were right after construction; a fallback never
\* inserts the substituted factor into the table.
C15_GetCarbonLeavesTables ==
    [][pc # "new" => tables' = tables]_vars

\* a Resistor call has returned a non-zero Carbon from a substituted factor,
\* and the table still has no entry for the requested type
C15_Witness ==
    /\ pc = "returned"
    /\ cat = "Resistor"
    /\ ret.kind = "Carbon"
    /\ ret.carbon > 0
    /\ ~DictHas(emission_factors, call.type)
    /\ emission_factors = ResistorModel_init(model_data).table

-----------------------------------------------------------------------------
(* C16 *)

\* get_carbon of category c on instance inst with the arguments args
GetCarbonOn(c, inst, args) ==
    CASE c = "Active" ->
             ActiveModel_get_carbon(inst.emission_factors, args.weight, args.type, args.n)
      [] c = "Connector" ->
             ConnectorModel_get_carbon(inst.emission_factors, args.weight, args.type, args.n)
      [] c = "Diode" ->
             DiodeModel_get_carbon(inst.emission_factors, args.weight, args.type, args.n)
      [] c = "Other" ->
             OtherModel_get_carbon(inst.emission_factors, args.weight, args.type, args.n)
      [] c = "Switch" ->
             SwitchModel_get_carbon(inst.emission_factors, args.weight, args.type, args.n)
      [] c = "Resistor" ->
             ResistorModel_get_carbon(inst.emission_factors, args.n, args.type)
      [] c = "Inductor" ->
             InductorModel_get_carbon(inst.weight_based_factor,
                                      inst.package_emission_factors,
                                      args.n, args.type, args.weight)
      [] c = "Capacitor" ->
             CapacitorModel_get_carbon(inst.capacitor_model, inst.package_model,
                                       args.ci, args.type, args.weight, args.n)
      [] c = "PCB" ->
             PCBModel_get_carbon(inst.model, inst.carbon_coefficient,
                                 inst.interpolated_cpla,
                                 args.area, args.layers, args.thickness)

\* C16: the outcome of a get_carbon call on an instance, whatever calls were
\* made on it before, is the outcome (same quantity, same source tag) of the
\* same call on an instance freshly constructed from the same document; so any
\* two instances of one document agree on every call.
C16_SameDocumentSameResult ==
    CallEnded => ret = GetCarbonOn(cat, FreshInstance(cat, model_data), call)

\* a Capacitor call in energy mode returned a non-zero Carbon; the state is the
\* same whether the call was the first on the instance or followed others
C16_Witness ==
    /\ CallEnded
    /\ cat = "Capacitor"
    /\ call.type = "mlcc"
    /\ DictHas(capacitor_model, "mlcc")
    /\ call.n = 2
    /\ ret = Carbon(DictGet(model_data, "mlcc") * call.weight.mag * 2 * ci_model(call.ci),
                    "PASSIVES")

-----------------------------------------------------------------------------
(* C17 *)

\* the call is one of a mass-based model, of Resistor, or of the package mode
\* of Inductor (no weight, a package type) or Capacitor (a package size)
QuantityScaled ==
    /\ CallEnded
    /\ \/ cat \in MassBased
       \/ cat = "Resistor"
       \/ cat = "Inductor" /\ call.weight = None
                           /\ call.type \in PackageSizes \cup {"generic"}
       \/ cat = "Capacitor" /\ call.type \in PackageSizes

\* the outcome of the call just made had its quantity been 1
UnitOutcome == GetCarbonOn(cat, ThisInstance, [call EXCEPT !.n = 1])

\* C17: for every mass-based model (Active, Connector, Diode, Other, Switch) and
\* every package-based model (Resistor, the package modes of Inductor and
\* Capacitor), with the remaining arguments fixed and every n >= 0, the result
\* of one call with quantity n is n times the result of a call with quantity 1,
\* which is the sum of the results of n such calls (same source tag); a call
\* that does not return does not return for quantity 1 either.
C17_QuantityAdditive ==
    QuantityScaled =>
        /\ ret.kind = UnitOutcome.kind
        /\ ret.source = UnitOutcome.source
        /\ ret.carbon = call.n * UnitOutcome.carbon

\* a package-mode call of Capacitor with quantity 2 returned twice the non-zero
\* result of quantity 1
C17_Witness ==
    /\ QuantityScaled
    /\ cat = "Capacitor"
    /\ DictHas(package_model, call.type)
    /\ call.n = 2
    /\ UnitOutcome.carbon > 0
    /\ ret.carbon = UnitOutcome.carbon + UnitOutcome.carbon

-----------------------------------------------------------------------------
(* C18 *)

\* the pairs of the document that go into the package table of Resistor or
\* Inductor, in the document's order
TablePairs ==
    SelectSeq(model_data,
              LAMBDA p : p[1] \in (IF cat = "Resistor" THEN ResistorType
                                   ELSE InductorType \ {"weight_based"}))

\* a sequence back to front
Reverse(seq) == [i \in DOMAIN seq |-> seq[Len(seq) + 1 - i]]

\* a call of Resistor, or of Inductor's package mode, for a type without an
\* entry on a table without an 0805 entry
FirstEntryCase ==
    /\ CallEnded
    /\ cat \in {"Resistor", "Inductor"}
    /\ TypeUnresolved
    /\ ~DictHas(FactorTable, "0805")

\* C18: for Resistor and for Inductor's package mode, when the constructed table
\* has no 0805 entry and the requested type has no entry, the factor used is the
\* first recognized entry of the table in the order of the document, not the
\* GENERIC entry, even when the document has an explicit generic entry (on
\* Inductor's empty table there is no first entry and the lookup of it raises
\* IndexError).
C18_FirstEntryInDocumentOrder ==
    FirstEntryCase =>
        IF TablePairs = <<>>
        THEN cat = "Inductor" /\ ret = IndexError
        ELSE ret = Carbon(TablePairs[1][2] * call.n, SourceTag(cat))

\* a Resistor document with an explicit generic entry that is not its first
\* pair: the call used the first pair's factor, which is not the GENERIC one, and
\* the same pairs in the opposite order give a different result for the call
C18_Witness ==
    /\ FirstEntryCase
    /\ cat = "Resistor"
    /\ DictHas(model_data, "generic")
    /\ call.n = 1
    /\ ret.carbon = model_data[1][2]
    /\ ret.carbon # DictGet(emission_factors, "generic")
    /\ ret # GetCarbonOn(cat, FreshInstance(cat, Reverse(model_data)), call)

-----------------------------------------------------------------------------
(* C19 *)

\* C19: for Inductor, a get_carbon call with type WEIGHT_BASED and no weight
\* argument returns a zero-valued Carbon tagged INDUCTOR, for every n and every
\* document (also one that configures weight_based and package factors); it
\* neither raises nor falls back to the package table.
C19_WeightBasedWithoutWeightZero ==
    (CallEnded /\ cat = "Inductor" /\ call.type = "weight_based" /\ call.weight = None) =>
        /\ ret = Carbon(0, "INDUCTOR")
        /\ pc = "returned"

\* the call on an instance with a weight-based factor and package factors
\* configured, for two inductors
C19_Witness ==
    /\ CallEnded
    /\ cat = "Inductor"
    /\ call.type = "weight_based"
    /\ call.weight = None
    /\ call.n = 2
    /\ weight_based_factor # None
    /\ DictHas(package_emission_factors, "0805")
    /\ ret = Carbon(0, "INDUCTOR")

====
